---- MODULE Spec2Model ----
(***************************************************************************)
(* A model of the utilities of src/main.cpp:                               *)
(*   - namespace good_tag_dispatch: the cursor types tree_iterator and     *)
(*     vector_iterator and the tag-dispatched advance / advance_impl;      *)
(*   - namespace tuple_template: tuple, nth_type, getter and get;          *)
(*   - the compile-time functions of the namespaces factorial_*,           *)
(*     sfinae_error, variadic_function_templates, constraints_concepts,    *)
(*     simple_requirements and nested_requirements.                        *)
(* Template instantiation is part of the model: a call whose              *)
(* instantiation is ill-formed produces no program step, only the outcome  *)
(* "ill_formed".                                                           *)
(***************************************************************************)
EXTENDS Integers, Sequences, FiniteSets, TLC

(* ----------------------------- bounds --------------------------------- *)

\* length of the sequence the cursors range over; positions are 0..MaxPos
MaxPos == 5

\* largest magnitude of the step count n passed to advance
MaxN == 3

(* ===================== namespace good_tag_dispatch ==================== *)

\* the elements of the sequence: [1, 2, ..., MaxPos]
Elems == [k \in 1..MaxPos |-> k]

\* the value a cursor at position p designates (p < MaxPos)
deref(p) == Elems[p + 1]

\* how many operands a cursor type's operator+ takes besides *this:
\* NoPlus means the type declares no operator+ at all
NoPlus == 0 - 1
PlusParams == {NoPlus, 0, 1}

\* struct tree_iterator: operator++ and  using supports_plus = std::false_type
tree_iterator ==
    [name |-> "tree_iterator", tag_is_type |-> TRUE,
     supports_plus |-> FALSE, plus_params |-> NoPlus]

\* struct vector_iterator: operator++, the member  vector_iterator operator+()
\* (no operand: unary plus) and  using supports_plus = std::true_type
vector_iterator ==
    [name |-> "vector_iterator", tag_is_type |-> TRUE,
     supports_plus |-> TRUE, plus_params |-> 0]

\* the cursor types the namespace declares
DeclaredIters == {tree_iterator, vector_iterator}

\* template <typename Iter>: any other type with an operator++ and a member
\* named supports_plus, which is either a type alias (as in the two declared
\* types) or a static member function returning the tag object
OtherIters ==
    [name : {"Iter"}, tag_is_type : BOOLEAN,
     supports_plus : BOOLEAN, plus_params : PlusParams]

Iters == DeclaredIters \cup OtherIters

\* operator++ of a cursor (declared at lines 114 and 129, defined nowhere):
\* one position forward
pre_increment(p) == p + 1

\* a binary operator+ of a cursor (the displacement  begin + n): n positions
\* forward
plus(p, n) == p + n

\* n applications of operator++ to a cursor at position p
RECURSIVE IncTimes(_, _)
IncTimes(p, n) == IF n <= 0 THEN p ELSE IncTimes(pre_increment(p), n - 1)

\* the parameter  Iter begin  of advance and advance_impl is passed by value:
\* the name begin denotes an object of its own, not the caller's cursor
BeginByRef == "cursor"
BeginObj == "begin"

\* the instantiation of  advance_impl(begin, n, tag)  for cursor type T:
\* overload resolution on the type of the third argument, then the body.
\* The std::true_type overload's body  begin + n  needs an operator+ taking
\* one operand; the std::false_type overload's body needs operator++ only.
advance_impl_inst(T, tag) ==
    IF tag
    THEN IF T.plus_params = 1 THEN "displace" ELSE "ill_formed"
    ELSE "step"

\* the instantiation of  advance(begin, n)  for cursor type T: the argument
\* Iter::supports_plus()  is a dependent qualified name without typename, so
\* it is parsed as a call of a non-type member; when supports_plus names a
\* type the instantiation is ill-formed (g++: "dependent-name
\* 'Iter::supports_plus' is parsed as a non-type, but instantiation yields a
\* type"). Otherwise the returned tag object selects the overload.
advance_inst(T) ==
    IF T.tag_is_type
    THEN "ill_formed"
    ELSE advance_impl_inst(T, T.supports_plus)

VARIABLES
    iterT,   \* the cursor type Iter of the current call
    via,     \* the function the caller called: "advance" or "advance_impl"
    tagArg,  \* the tag object passed as third argument of advance_impl
    mem,     \* the live cursor objects: "cursor" (the caller's), "begin"
    n,       \* the argument n
    i,       \* the loop variable of the std::false_type overload
    pc,      \* "idle", "step", "displace", "done", "ill_formed"
    path,    \* the advance_impl overload entered: "none", "step", "displace"
    incs,    \* applications of operator++ in the current call
    disps,   \* applications of operator+ in the current call
    result   \* the returned cursor

advvars == <<iterT, via, tagArg, mem, n, i, pc, path, incs, disps, result>>

\* the state of the tuple_template component
VARIABLES
    tstate,  \* "unbuilt", "live", or "ill_formed" (the declaration failed)
    args,    \* the arguments the tuple was constructed from
    tup,     \* the tuple object: its chain of cells
    fresh,   \* no write through a reference since construction
    tret     \* the last operation, its index and its value

tupvars == <<tstate, args, tup, fresh, tret>>

\* two tuples built from the same variables (tuple_template, ownership)
VARIABLES
    ostate,  \* "unbuilt" or "live"
    src,     \* the variables x0, ..., xN-1 the tuples were initialised from
    tupA,    \* tuple a(x0, ..., xN-1)
    tupB,    \* tuple b(x0, ..., xN-1)
    oret     \* the last operation, its index and its value

ownvars == <<ostate, src, tupA, tupB, oret>>

\* the compile-time functions: the last call and its result
VARIABLES call

purevars == <<call>>

vars == <<advvars, tupvars, ownvars, purevars>>

\* the frames of the components
notadv == <<tupvars, ownvars, purevars>>
nottup == <<advvars, ownvars, purevars>>
notown == <<advvars, tupvars, purevars>>
notpure == <<advvars, tupvars, ownvars>>

\* no cursor was returned
NoCursor == [built |-> FALSE]
Cursor(p) == [built |-> TRUE, pos |-> p]

AdvInit ==
    /\ iterT = tree_iterator
    /\ via = "advance"
    /\ tagArg = FALSE
    /\ mem \in [{"cursor"} -> 0..MaxPos]
    /\ n = 0
    /\ i = 0
    /\ pc = "idle"
    /\ path = "none"
    /\ incs = 0
    /\ disps = 0
    /\ result = NoCursor

\* entering a call whose instantiation gave outcome o: the by-value
\* parameter begin is initialised from the caller's cursor
Enter(o) ==
    /\ pc' = o
    /\ path' = IF o = "ill_formed" THEN "none" ELSE o
    /\ mem' = IF o = "ill_formed" THEN mem
              ELSE (BeginObj :> mem["cursor"]) @@ mem
    /\ i' = 0
    /\ incs' = 0
    /\ disps' = 0
    /\ result' = NoCursor

\* the caller evaluates  advance(cursor, k)  with Iter = T
CallAdvance(T, k) ==
    /\ pc = "idle"
    /\ mem["cursor"] + k \in 0..MaxPos
    /\ iterT' = T
    /\ via' = "advance"
    /\ tagArg' = T.supports_plus
    /\ n' = k
    /\ Enter(advance_inst(T))
    /\ UNCHANGED notadv

\* the caller evaluates  advance_impl(cursor, k, tag)  with Iter = T
CallAdvanceImpl(T, k, tag) ==
    /\ pc = "idle"
    /\ mem["cursor"] + k \in 0..MaxPos
    /\ iterT' = T
    /\ via' = "advance_impl"
    /\ tagArg' = tag
    /\ n' = k
    /\ Enter(advance_impl_inst(T, tag))
    /\ UNCHANGED notadv

\* the loop condition  i < n
loop_guard_Abs(j, k) == j < (IF k < 0 THEN 0 - k ELSE k)
loop_guard(j, k) == j < k

\* for (int i = 0; i < n; i++) { ++begin; }
LoopStep ==
    /\ pc = "step"
    /\ loop_guard(i, n)
    /\ mem' = [mem EXCEPT ![BeginObj] = pre_increment(@)]
    /\ i' = i + 1
    /\ incs' = incs + 1
    /\ UNCHANGED <<iterT, via, tagArg, n, pc, path, disps, result>>
    /\ UNCHANGED notadv

\* the loop guard fails: return begin;
LoopReturn ==
    /\ pc = "step"
    /\ ~loop_guard(i, n)
    /\ result' = Cursor(mem[BeginObj])
    /\ pc' = "done"
    /\ UNCHANGED <<iterT, via, tagArg, mem, n, i, path, incs, disps>>
    /\ UNCHANGED notadv

\* return begin + n;
Displace ==
    /\ pc = "displace"
    /\ result' = Cursor(plus(mem[BeginObj], n))
    /\ disps' = disps + 1
    /\ pc' = "done"
    /\ UNCHANGED <<iterT, via, tagArg, mem, n, i, path, incs>>
    /\ UNCHANGED notadv

\* the call expression is over: the parameter begin is destroyed
Finish ==
    /\ pc \in {"done", "ill_formed"}
    /\ pc' = "idle"
    /\ mem' = [o \in {"cursor"} |-> mem[o]]
    /\ UNCHANGED <<iterT, via, tagArg, n, i, path, incs, disps, result>>
    /\ UNCHANGED notadv

AdvNext ==
    \/ \E T \in Iters, k \in (0 - MaxN)..MaxN : CallAdvance(T, k)
    \/ \E T \in Iters, k \in (0 - MaxN)..MaxN, tag \in BOOLEAN :
           CallAdvanceImpl(T, k, tag)
    \/ LoopStep
    \/ LoopReturn
    \/ Displace
    \/ Finish

(* ======================= namespace tuple_template ===================== *)

\* largest number of constructor arguments tried
MaxArity == 3

\* the element types and some values of each; a double d is held as 10 * d
\* and a char as its code, so 42.5 is 425 and 'a' is 97
Types == {"int", "double", "char"}
ValuesOf(T) ==
    IF T = "int" THEN {42, 7}
    ELSE IF T = "double" THEN {425, 10}
    ELSE {97, 98}
Val(T, x) == [type |-> T, v |-> x]
Values == UNION {{Val(T, x) : x \in ValuesOf(T)} : T \in Types}
NoVal == [type |-> "void", v |-> 0]

\* the values constructor arguments are drawn from: the driver's 42, 42.5
\* and 'a', and a second int
ArgValues ==
    {Val("int", 42), Val("int", 7), Val("double", 425), Val("char", 97)}

\* the argument lists  v0, ..., vN-1  of a constructor call, N = 0 included
ArgLists == UNION {[1..k -> ArgValues] : k \in 0..MaxArity}

\* the pack Ts... deduced from an argument list
TypesOf(a) == [k \in 1..Len(a) |-> a[k].type]

\* tuple<T, Ts...>  is a cell [value, rest] whose rest is a tuple<Ts...>;
\* the partial specialization tuple<T> is a cell [value]. The constructors
\* copy their arguments into value and pass the remaining ones to rest.
RECURSIVE construct_EmptyEnd(_)
construct_EmptyEnd(a) ==
    IF Len(a) = 0
    THEN [end |-> TRUE]
    ELSE [value |-> a[1], rest |-> construct_EmptyEnd(Tail(a))]
RECURSIVE construct(_)
construct(a) ==
    IF Len(a) = 1
    THEN [value |-> a[1]]
    ELSE [value |-> a[1], rest |-> construct(Tail(a))]

\* the instantiation of  tuple<Ts...>: the primary template needs a first
\* type T, so an empty pack matches no template
tuple_inst(Ts) == IF Len(Ts) = 0 THEN "ill_formed" ELSE "ok"

\* size(): 1 + rest.size() in the primary template, 1 in tuple<T>
RECURSIVE size_NoHead(_)
size_NoHead(t) == IF "rest" \in DOMAIN t THEN size_NoHead(t.rest) ELSE 1
RECURSIVE size(_)
size(t) == IF "rest" \in DOMAIN t THEN 1 + size(t.rest) ELSE 1

\* nth_type<N, T, Ts...>: derives from nth_type<N - 1, Ts...> under
\* static_assert(N < sizeof...(Ts) + 1); nth_type<0, T, Ts...> names T;
\* an empty pack matches neither
RECURSIVE nth_type(_, _)
nth_type(N, Ts) ==
    IF Len(Ts) = 0 THEN "ill_formed"
    ELSE IF N = 0 THEN Head(Ts)
    ELSE IF ~(N < Len(Tail(Ts)) + 1) THEN "ill_formed"
    ELSE nth_type(N - 1, Tail(Ts))

\* getter<N>::get(t): the reference it returns, written as the member
\* accesses that lead to the referenced object. getter<0> returns t.value,
\* getter<N> returns getter<N - 1>::get(t.rest).
RECURSIVE getter_StopEarly(_, _)
getter_StopEarly(N, t) ==
    IF N <= 1 THEN <<"value">>
    ELSE <<"rest">> \o getter_StopEarly(N - 1, t.rest)
getter_SameCell(N, t) == <<"value">>
RECURSIVE getter(_, _)
getter(N, t) ==
    IF N = 0 THEN <<"value">>
    ELSE <<"rest">> \o getter(N - 1, t.rest)

\* get<N>(t): the return type nth_type_t<N, Ts...> must exist
NoRef == <<>>
get_Clamp(N, Ts, t) == getter(IF N < Len(Ts) THEN N ELSE Len(Ts) - 1, t)
get(N, Ts, t) ==
    IF nth_type(N, Ts) = "ill_formed" THEN NoRef ELSE getter(N, t)

\* reading the object a reference designates
RECURSIVE Load(_, _)
Load(t, ref) ==
    IF Head(ref) = "value" THEN t.value ELSE Load(t.rest, Tail(ref))

\* assigning to the object a reference designates
RECURSIVE Store(_, _, _)
Store(t, ref, x) ==
    IF Head(ref) = "value"
    THEN [t EXCEPT !.value = x]
    ELSE [t EXCEPT !.rest = Store(@, Tail(ref), x)]

Ret(op, idx, x) == [op |-> op, idx |-> idx, val |-> x]

TupInit ==
    /\ tstate = "unbuilt"
    /\ args = <<>>
    /\ tup = [value |-> NoVal]
    /\ fresh = TRUE
    /\ tret = Ret("none", 0, NoVal)

\* tuple t(v0, ..., vN-1);
TConstruct(a) ==
    /\ tstate # "live"
    /\ args' = a
    /\ fresh' = TRUE
    /\ IF tuple_inst(TypesOf(a)) = "ill_formed"
       THEN /\ tstate' = "ill_formed"
            /\ tup' = [value |-> NoVal]
            /\ tret' = Ret("construct_ill_formed", 0, NoVal)
       ELSE /\ tstate' = "live"
            /\ tup' = construct(a)
            /\ tret' = Ret("construct", 0, NoVal)
    /\ UNCHANGED nottup

\* ... = get<k>(t);
TGet(k) ==
    /\ tstate = "live"
    /\ LET ref == get(k, TypesOf(args), tup) IN
         tret' = IF ref = NoRef
                 THEN Ret("get_ill_formed", k, NoVal)
                 ELSE Ret("get", k, Load(tup, ref))
    /\ UNCHANGED <<tstate, args, tup, fresh>>
    /\ UNCHANGED nottup

\* get<k>(t) = x;  with x of the slot's type
TWrite(k, x) ==
    /\ tstate = "live"
    /\ LET ref == get(k, TypesOf(args), tup) IN
         /\ ref # NoRef
         /\ x.type = Load(tup, ref).type
         /\ tup' = Store(tup, ref, x)
    /\ fresh' = FALSE
    /\ tret' = Ret("write", k, x)
    /\ UNCHANGED <<tstate, args>>
    /\ UNCHANGED nottup

\* ... = t.size();
TSize ==
    /\ tstate = "live"
    /\ tret' = Ret("size", 0, Val("int", size(tup)))
    /\ UNCHANGED <<tstate, args, tup, fresh>>
    /\ UNCHANGED nottup

\* the tuple's scope ends
TDestroy ==
    /\ tstate # "unbuilt"
    /\ tstate' = "unbuilt"
    /\ args' = <<>>
    /\ tup' = [value |-> NoVal]
    /\ fresh' = TRUE
    /\ tret' = Ret("none", 0, NoVal)
    /\ UNCHANGED nottup

TupNext ==
    \/ \E a \in ArgLists : TConstruct(a)
    \/ \E k \in 0..MaxArity : TGet(k)
    \/ \E k \in 0..MaxArity, x \in Values : TWrite(k, x)
    \/ TSize
    \/ TDestroy

(* ================== tuple_template: ownership of values =============== *)

OwnInit ==
    /\ ostate = "unbuilt"
    /\ src = <<>>
    /\ tupA = [value |-> NoVal]
    /\ tupB = [value |-> NoVal]
    /\ oret = Ret("none", 0, NoVal)

\* value(t): the member  T value  is initialised with a copy of the argument
\* the parameter  T const &t  refers to; a member of reference type would be
\* bound to the caller's variable k instead
member_init_Alias(k, xs) == [type |-> "ref", v |-> k]
member_init(k, xs) == xs[k]

\* the members a constructor call with the variables xs initialises
Members(xs) == [k \in 1..Len(xs) |-> member_init(k, xs)]

\* the value a member denotes: its own, or that of the variable it is bound to
Read(x, xs) == IF x.type = "ref" THEN xs[x.v] ELSE x

\* what get<j> reads from the tuple t
SlotOf(t, j, xs) == Read(Load(t, getter(j, t)), xs)

\* largest number of source variables of the two tuples
MaxOwnArity == 2

\* the lists of source variables  x0, ..., xN-1
OwnArgLists == UNION {[1..k -> ArgValues] : k \in 1..MaxOwnArity}

\* T0 x0 = v0; ...; tuple a(x0, ...); tuple b(x0, ...);
OConstruct(a) ==
    /\ ostate = "unbuilt"
    /\ tuple_inst(TypesOf(a)) = "ok"
    /\ src' = a
    /\ tupA' = construct(Members(a))
    /\ tupB' = construct(Members(a))
    /\ ostate' = "live"
    /\ oret' = Ret("construct", 0, NoVal)
    /\ UNCHANGED notown

\* get<k>(a) = x;  with x of the slot's type
OWriteTuple(k, x) ==
    /\ ostate = "live"
    /\ LET ref == get(k, TypesOf(src), tupA) IN
         /\ ref # NoRef
         /\ x.type = Read(Load(tupA, ref), src).type
         /\ IF Load(tupA, ref).type = "ref"
            THEN /\ src' = [src EXCEPT ![Load(tupA, ref).v] = x]
                 /\ tupA' = tupA
            ELSE /\ tupA' = Store(tupA, ref, x)
                 /\ src' = src
    /\ oret' = Ret("write_tuple", k, x)
    /\ UNCHANGED <<ostate, tupB>>
    /\ UNCHANGED notown

\* xk = x;  with x of the variable's type
OWriteSource(k, x) ==
    /\ ostate = "live"
    /\ k < Len(src)
    /\ x.type = src[k + 1].type
    /\ src' = [src EXCEPT ![k + 1] = x]
    /\ oret' = Ret("write_source", k, x)
    /\ UNCHANGED <<ostate, tupA, tupB>>
    /\ UNCHANGED notown

\* the scope of the tuples and the variables ends
ODestroy ==
    /\ ostate = "live"
    /\ ostate' = "unbuilt"
    /\ src' = <<>>
    /\ tupA' = [value |-> NoVal]
    /\ tupB' = [value |-> NoVal]
    /\ oret' = Ret("none", 0, NoVal)
    /\ UNCHANGED notown

OwnNext ==
    \/ \E a \in OwnArgLists : OConstruct(a)
    \/ \E k \in 0..MaxOwnArity, x \in Values : OWriteTuple(k, x)
    \/ \E k \in 0..MaxOwnArity, x \in Values : OWriteSource(k, x)
    \/ ODestroy

(* ====================== compile-time functions ======================== *)

PureInit == call = [fn |-> "none"]

(* ---- namespaces factorial_class_template, factorial_variable_template, *)
(* ---- factorial_function_template, factorial_constexpr                  *)

\* largest argument of the factorial functions
MaxFact == 12

\* an unsigned int (32 bits) is held as its two 16-bit halves <<high, low>>
Half == 65536
U32(x) == <<x \div Half, x % Half>>

\* k * x in unsigned int arithmetic, for a small factor k: the product
\* modulo 2^32
umul(k, x) ==
    LET low == k * x[2]
        high == k * x[1] + (low \div Half)
    IN <<high % Half, low % Half>>

\* factorial<N>::value = N * factorial<N - 1>::value,  factorial<0>::value = 1;
\* factorial_v<N> = factorial<N>::value
RECURSIVE factorial_v(_)
factorial_v(N) == IF N = 0 THEN U32(1) ELSE umul(N, factorial_v(N - 1))

\* variable template: factorial<N> = N * factorial<N - 1>,  factorial<0> = 1
RECURSIVE factorial_var(_)
factorial_var(N) == IF N = 0 THEN U32(1) ELSE umul(N, factorial_var(N - 1))

\* function template: factorial<n>() returns n * factorial<n - 1>(),
\* factorial<0>() returns 1
RECURSIVE factorial_fn(_)
factorial_fn(N) == IF N = 0 THEN U32(1) ELSE umul(N, factorial_fn(N - 1))

\* constexpr function: return n > 1 ? n * factorial(n - 1) : 1;
RECURSIVE factorial_constexpr_BaseN(_)
factorial_constexpr_BaseN(k) ==
    IF k > 1 THEN umul(k, factorial_constexpr_BaseN(k - 1)) ELSE U32(k)
RECURSIVE factorial_constexpr(_)
factorial_constexpr(k) ==
    IF k > 1 THEN umul(k, factorial_constexpr(k - 1)) ELSE U32(1)

FactorialImpls == {"factorial_v", "factorial_var", "factorial_fn",
                   "factorial_constexpr"}

factorial_of(impl, k) ==
    IF impl = "factorial_v" THEN factorial_v(k)
    ELSE IF impl = "factorial_var" THEN factorial_var(k)
    ELSE IF impl = "factorial_fn" THEN factorial_fn(k)
    ELSE factorial_constexpr(k)

\* std::cout << factorial_v<k>, factorial<k>, factorial<k>() or factorial(k)
CallFactorial(impl, k) ==
    /\ call.fn = "none"
    /\ call' = [fn |-> "factorial", impl |-> impl, arg |-> k,
                out |-> factorial_of(impl, k)]
    /\ UNCHANGED notpure

(* ---- namespace sfinae_error ------------------------------------------ *)

\* largest array length passed to handle
MaxArrayLen == 8

\* the array bound a bool constant converts to: true is 1, false is 0
bound_of(b) == IF b THEN 1 ELSE 0

\* char (*)[B]: an array type of size zero is a deduction failure
array_type_ok(B) == B > 0

\* handle(T (&)[N], char (*)[N % 2 == 0] = nullptr)
handle_even_viable(N) == array_type_ok(bound_of(N % 2 = 0))

\* handle(T (&)[N], char (*)[N % 2 == 1] = nullptr)
handle_odd_viable_SameTest(N) == array_type_ok(bound_of(N % 2 = 0))
handle_odd_viable(N) == array_type_ok(bound_of(N % 2 = 1))

\* overload resolution of handle(arr) for an array of N elements; neither
\* viable overload is more specialised than the other
handle(N) ==
    IF handle_even_viable(N) /\ handle_odd_viable(N) THEN "ambiguous"
    ELSE IF handle_even_viable(N) THEN "even"
    ELSE IF handle_odd_viable(N) THEN "odd"
    ELSE "no_match"

\* int arr[N]{...}; handle(arr);
CallHandle(N) ==
    /\ call.fn = "none"
    /\ call' = [fn |-> "handle", arg |-> N, out |-> handle(N)]
    /\ UNCHANGED notpure

(* ---- namespace variadic_function_templates --------------------------- *)

\* largest number of arguments passed to min
MaxMinArgs == 5

\* the argument values: ints, and doubles held as 10 * d (7.5 is 75)
MinValuesOf(T) == IF T = "int" THEN {0 - 4, 1, 3, 5, 9} ELSE {75, 420}
MinArgLists(T) == UNION {[1..k -> MinValuesOf(T)] : k \in 1..MaxMinArgs}

\* T min(T a)
min1(a) == a

\* T min(T a, T b):  return a < b ? a : b;
min2_Greater(a, b) == IF a > b THEN a ELSE b
min2(a, b) == IF a < b THEN a ELSE b

\* min(a, as...): one argument selects min(T), two of one type min(T, T),
\* more the variadic template, which returns min(a, min(as...))
RECURSIVE min(_)
min(as) ==
    IF Len(as) = 1 THEN min1(as[1])
    ELSE IF Len(as) = 2 THEN min2(as[1], as[2])
    ELSE min2(as[1], min(Tail(as)))

\* std::cout << min(a1, ..., ak)
CallMin(T, as) ==
    /\ call.fn = "none"
    /\ call' = [fn |-> "min", type |-> T, arg |-> as, out |-> min(as)]
    /\ UNCHANGED notpure

(* ---- namespaces constraints_concepts and simple_requirements --------- *)

\* some types; widget is struct enable_if_template::widget
ConceptTypes == {"int", "double", "float", "char", "bool",
                 "std::string", "widget", "int*"}

\* std::is_arithmetic_v<T>
is_arithmetic_v(T) == T \in {"int", "double", "float", "char", "bool"}

\* the expression  std::is_arithmetic_v<T>  is well-formed for every type T
is_arithmetic_v_valid(T) == T \in ConceptTypes

\* a + b for two values of type T is well-formed
plus_valid(T) == is_arithmetic_v(T) \/ T \in {"std::string"}

\* concept_check::arithmetic = requires { std::is_arithmetic_v<T>; }: a
\* simple requirement asks that the expression is well-formed, not for its value
concept_check_arithmetic(T) == is_arithmetic_v_valid(T)

\* concept_check_alternative::arithmetic = std::is_arithmetic_v<T>
concept_check_alternative_arithmetic(T) == is_arithmetic_v(T)

\* simple_requirements::arithmetic = requires { std::is_arithmetic_v<T>; }
simple_requirements_arithmetic(T) == is_arithmetic_v_valid(T)

\* simple_requirements::arithmetic_alt = std::is_arithmetic_v<T>
simple_requirements_arithmetic_alt(T) == is_arithmetic_v(T)

\* template <arithmetic T> T add(T const a, T const b): the call add(x, y)
\* with two values of type T
concept_check_add(T) ==
    IF ~concept_check_arithmetic(T) THEN "no_match"
    ELSE IF ~plus_valid(T) THEN "ill_formed"
    ELSE "ok"

\* the concepts and add applied to the type T
CallArithmetic(T) ==
    /\ call.fn = "none"
    /\ call' = [fn |-> "arithmetic", arg |-> T,
                concept_check |-> concept_check_arithmetic(T),
                alternative |-> concept_check_alternative_arithmetic(T),
                simple |-> simple_requirements_arithmetic(T),
                simple_alt |-> simple_requirements_arithmetic_alt(T),
                add |-> concept_check_add(T)]
    /\ UNCHANGED notpure

(* ---- namespace nested_requirements ----------------------------------- *)

\* largest pack passed to HomogenousRange
MaxPack == 6

PackTypes == {"int", "double", "float", "widget"}
Packs == UNION {[1..k -> PackTypes] : k \in 0..MaxPack}

\* std::is_same<T, U>
is_same(T, U) == T = U

\* are_same_v<T, Ts...> = std::conjunction_v<std::is_same<T, Ts>...>; the
\* template needs a first type T
are_same_v_valid(Ts) == Len(Ts) >= 1
are_same_v_FirstPair(Ts) == Len(Ts) >= 2 => is_same(Ts[1], Ts[2])
are_same_v(Ts) == \A k \in 2..Len(Ts) : is_same(Ts[1], Ts[k])

\* the type of a + b, by the usual arithmetic conversions; widget has no
\* operator+
plus_type(A, B) ==
    IF A \in {"widget", "ill_formed"} \/ B \in {"widget", "ill_formed"}
    THEN "ill_formed"
    ELSE IF A = "double" \/ B = "double" THEN "double"
    ELSE IF A = "float" \/ B = "float" THEN "float"
    ELSE "int"

\* (... + t): a unary left fold; over an empty pack it is ill-formed, over
\* one element it is the element
RECURSIVE fold_plus(_)
fold_plus(Ts) ==
    IF Len(Ts) = 0 THEN "ill_formed"
    ELSE IF Len(Ts) = 1 THEN Ts[1]
    ELSE plus_type(fold_plus(SubSeq(Ts, 1, Len(Ts) - 1)), Ts[Len(Ts)])

\* concept HomogenousRange = requires(T... t) { (... + t);
\*     requires are_same_v<T...>;  requires sizeof...(T) > 1; }
HomogenousRange(Ts) ==
    /\ fold_plus(Ts) # "ill_formed"
    /\ are_same_v_valid(Ts) /\ are_same_v(Ts)
    /\ Len(Ts) > 1

\* template <typename... T> requires HomogenousRange<T...> auto add(T &&...t):
\* the call with arguments of the types Ts gives the type of (... + t)
nested_add(Ts) == IF HomogenousRange(Ts) THEN fold_plus(Ts) ELSE "no_match"

\* static_assert(HomogenousRange<Ts...>);  add(t...);
CallHomogenousRange(Ts) ==
    /\ call.fn = "none"
    /\ call' = [fn |-> "HomogenousRange", arg |-> Ts,
                holds |-> HomogenousRange(Ts), add |-> nested_add(Ts)]
    /\ UNCHANGED notpure

\* the statement is over; the next one follows
PureReturn ==
    /\ call.fn # "none"
    /\ call' = [fn |-> "none"]
    /\ UNCHANGED notpure

\* the operands a statement may take: chosen only where a statement starts
Operands(S) == IF call.fn = "none" THEN S ELSE {}

PureNext ==
    \/ \E impl \in FactorialImpls, k \in 0..MaxFact : CallFactorial(impl, k)
    \/ \E N \in 1..MaxArrayLen : CallHandle(N)
    \/ \E T \in {"int", "double"} :
          \E as \in Operands(MinArgLists(T)) : CallMin(T, as)
    \/ \E T \in ConceptTypes : CallArithmetic(T)
    \/ \E Ts \in Operands(Packs) : CallHomogenousRange(Ts)
    \/ PureReturn

(* ========================== specifications ============================ *)

\* the advance utility alone; the tuple stays undeclared
InitAdvance == AdvInit /\ TupInit /\ OwnInit /\ PureInit
SpecAdvance == InitAdvance /\ [][AdvNext]_vars

\* the tuple alone; no advance call is made
InitTuple == AdvInit /\ mem["cursor"] = 0 /\ TupInit /\ OwnInit /\ PureInit
SpecTuple == InitTuple /\ [][TupNext]_vars

\* two tuples built from the same variables
InitOwn == AdvInit /\ mem["cursor"] = 0 /\ TupInit /\ OwnInit /\ PureInit
SpecOwn == InitOwn /\ [][OwnNext]_vars

\* the compile-time functions
InitPure == AdvInit /\ mem["cursor"] = 0 /\ TupInit /\ OwnInit /\ PureInit
SpecPure == InitPure /\ [][PureNext]_vars

(* ============================== claims ================================ *)

\* slot k of the live tuple, read through get<k>
Slot(t, k) == Load(t, get(k, TypesOf(args), t))

\* C1: get<k> applied to a freshly constructed tuple returns the value passed
\* in argument position k, for every k below the tuple's length
C1_GetReturnsArgument ==
    (tstate = "live" /\ fresh) =>
        /\ \A k \in 0..(Len(args) - 1) : Slot(tup, k) = args[k + 1]
        /\ tret.op = "get" => tret.val = args[tret.idx + 1]

\* a get<2> on the driver's tuple three(42, 42.5, 'a') has returned 'a'
C1_Witness ==
    /\ tstate = "live" /\ fresh
    /\ args = <<Val("int", 42), Val("double", 425), Val("char", 97)>>
    /\ tret = Ret("get", 2, Val("char", 97))

\* C2: size() of a tuple constructed from N values is N, also after writes
\* through get<k>
C2_SizeIsArity ==
    tstate = "live" =>
        /\ size(tup) = Len(args)
        /\ tret.op = "size" => tret.val = Val("int", Len(args))

\* size() has returned 3 on a three-element tuple that was written to
C2_Witness ==
    /\ tstate = "live" /\ ~fresh
    /\ Len(args) = 3
    /\ tret = Ret("size", 0, Val("int", 3))

\* C3: a write through get<k> makes get<k> return the written value and
\* leaves what get<j> returns unchanged for every other j
C3_WriteChangesOneSlot ==
    [][(tstate = "live" /\ tstate' = "live" /\ tret'.op = "write") =>
          \A j \in 0..(Len(args) - 1) :
              Slot(tup', j) = IF j = tret'.idx THEN tret'.val
                              ELSE Slot(tup, j)]_vars

\* the middle slot of a three-element tuple holds a newly written value
\* and the two other slots hold the constructor's arguments
C3_Witness ==
    /\ tstate = "live" /\ Len(args) = 3
    /\ tret.op = "write" /\ tret.idx = 1
    /\ Slot(tup, 1) = tret.val /\ tret.val # args[2]
    /\ Slot(tup, 0) = args[1] /\ Slot(tup, 2) = args[3]

\* a call expression has been translated: it ran to its return, or its
\* instantiation was ill-formed
Attempted == pc \in {"done", "ill_formed"}

\* C4 (for the offsettable cursor type the code declares): advance(c, n)
\* with n >= 0 returns the cursor n positions after c, which is the cursor
\* reached by n single-step increments
C4_OffsetEqualsSteps ==
    (Attempted /\ via = "advance" /\ iterT = vector_iterator /\ n >= 0) =>
        /\ result = Cursor(mem["cursor"] + n)
        /\ result = Cursor(IncTimes(mem["cursor"], n))

\* C5 (for the steppable-only cursor type the code declares): advance(c, n)
\* with n >= 0 applies operator++ exactly n times and returns the cursor n
\* positions after c; from position 0 with n = 3 it lands on value 4
C5_StepLoopCount ==
    (Attempted /\ via = "advance" /\ iterT = tree_iterator /\ n >= 0) =>
        /\ incs = n
        /\ result = Cursor(mem["cursor"] + n)
        /\ (mem["cursor"] = 0 /\ n = 3) => deref(result.pos) = 4

\* C6 (for the offsettable cursor type the code declares): advance(c, n)
\* performs one displacement and no increment; from position 0 with n = 3
\* it lands on value 4
C6_OneDisplacement ==
    (Attempted /\ via = "advance" /\ iterT = vector_iterator) =>
        /\ disps = 1
        /\ incs = 0
        /\ (mem["cursor"] = 0 /\ n = 3) =>
               (result.built /\ deref(result.pos) = 4)

\* C7 (for the cursor types the code declares): advance on a type tagged
\* false takes the step loop, on a type tagged true the displacement, and
\* no call both displaces and steps
C7_PathByTag ==
    (Attempted /\ via = "advance" /\ iterT \in DeclaredIters) =>
        /\ path = IF iterT.supports_plus THEN "displace" ELSE "step"
        /\ ~(disps > 0 /\ incs > 0)

\* C8 (for the cursor types the code declares): advance(c, 0) returns a
\* cursor at the position of c
C8_AdvanceZero ==
    (Attempted /\ via = "advance" /\ iterT \in DeclaredIters /\ n = 0) =>
        result = Cursor(mem["cursor"])

\* C9: no step of advance or advance_impl changes the caller's cursor, and
\* a call that returns delivers a cursor as its return value
C9_CallerCursorUnchanged ==
    [][/\ mem'["cursor"] = mem["cursor"]
       /\ pc' = "done" => result'.built
      ]_vars

\* the step loop has returned a cursor three positions after the caller's,
\* which is where it was
C9_Witness ==
    /\ pc = "done" /\ path = "step" /\ incs = 3
    /\ result = Cursor(mem["cursor"] + 3)
    /\ mem["begin"] # mem["cursor"]

\* C10 (for the cursor types the code declares): a type tagged
\* supports_plus = true has an operator+ taking the step count, and the
\* displacement overload of advance_impl instantiates for it
C10_OffsettableHasDisplacement ==
    (pc # "idle" /\ iterT \in DeclaredIters /\ iterT.supports_plus) =>
        /\ iterT.plus_params = 1
        /\ (via = "advance_impl" /\ tagArg) => pc # "ill_formed"

\* C11: get<k> with k at or beyond the tuple's length yields no reference
\* and no value: the request is ill-formed, and every get or write that
\* took place had an index below the length
C11_OutOfRangeRejected ==
    tstate = "live" =>
        /\ \A k \in Len(args)..MaxArity :
               get(k, TypesOf(args), tup) = NoRef
        /\ tret.op \in {"get", "write"} => tret.idx < Len(args)
        /\ tret.op = "get_ill_formed" =>
               (tret.idx >= Len(args) /\ tret.val = NoVal)

\* get<2> on a two-element tuple has been rejected
C11_Witness ==
    /\ tstate = "live" /\ Len(args) = 2
    /\ tret = Ret("get_ill_formed", 2, NoVal)

\* the last cell of a chain of cells
RECURSIVE LastCell(_)
LastCell(t) == IF "rest" \in DOMAIN t THEN LastCell(t.rest) ELSE t

\* C12: a construction from zero values is ill-formed; a live tuple has at
\* least one slot and its chain ends in a cell that holds a value and no rest
C12_NoEmptyTuple ==
    /\ tstate = "live" =>
           /\ Len(args) >= 1
           /\ size(tup) >= 1
           /\ DOMAIN LastCell(tup) = {"value"}
    /\ (tstate # "unbuilt" /\ Len(args) = 0) =>
           (tstate = "ill_formed" /\ tret.op = "construct_ill_formed")

\* a declaration of a tuple with no argument has been rejected
C12_Witness ==
    /\ tstate = "ill_formed" /\ args = <<>>
    /\ tret = Ret("construct_ill_formed", 0, NoVal)

\* C14: for n < 0 the step loop performs no increment and returns the input
\* position, the displacement returns begin + n, and the two differ
C14_NegativeStepsDiverge ==
    /\ (pc = "step" /\ n < 0) => incs = 0
    /\ (pc = "done" /\ n < 0) =>
           IF path = "step"
           THEN /\ incs = 0 /\ disps = 0
                /\ result = Cursor(mem["cursor"])
                /\ result # Cursor(plus(mem["cursor"], n))
           ELSE /\ incs = 0 /\ disps = 1
                /\ result = Cursor(plus(mem["cursor"], n))
                /\ result # Cursor(mem["cursor"])

\* the step loop has returned the input position 3 for n = -3, where the
\* displacement gives position 0
C14_Witness ==
    /\ pc = "done" /\ path = "step" /\ n = 0 - 3
    /\ mem["cursor"] = 3 /\ result = Cursor(3)
    /\ plus(mem["cursor"], n) = 0

\* the k-th tail of a chain of cells
RECURSIVE NthTail(_, _)
NthTail(t, k) == IF k = 0 THEN t ELSE NthTail(t.rest, k - 1)

\* C15: the lookup get<k> descends exactly k times into rest and then takes
\* value, which is the value of the head of the k-th tail
C15_GetDescends ==
    tstate = "live" =>
        \A k \in 0..(Len(args) - 1) :
            LET ref == getter(k, tup) IN
              /\ Len(ref) = k + 1
              /\ \A j \in 1..k : ref[j] = "rest"
              /\ ref[k + 1] = "value"
              /\ Load(tup, ref) = NthTail(tup, k).value

\* get<2> on a written three-element tuple went rest, rest, value
C15_Witness ==
    /\ tstate = "live" /\ ~fresh /\ Len(args) = 3
    /\ tret.op = "get" /\ tret.idx = 2
    /\ getter(2, tup) = <<"rest", "rest", "value">>
    /\ tret.val = tup.rest.rest.value

\* C13: a write through get<k> on one tuple changes no source variable and
\* no slot of the other tuple built from the same variables, and a write to
\* a source variable changes no slot of either tuple
C13_TupleOwnsCopies ==
    [][(ostate = "live" /\ ostate' = "live") =>
          /\ oret'.op = "write_tuple" =>
                /\ src' = src
                /\ SlotOf(tupA', oret'.idx, src') = oret'.val
                /\ \A j \in 0..(Len(src) - 1) :
                       SlotOf(tupB', j, src') = SlotOf(tupB, j, src)
          /\ oret'.op = "write_source" =>
                \A j \in 0..(Len(src) - 1) :
                    /\ SlotOf(tupA', j, src') = SlotOf(tupA, j, src)
                    /\ SlotOf(tupB', j, src') = SlotOf(tupB, j, src)
      ]_vars

\* slot 1 of the first tuple holds a written value, while the variable it
\* was initialised from and slot 1 of the second tuple hold the old one
C13_Witness ==
    /\ ostate = "live" /\ Len(src) = 2
    /\ oret.op = "write_tuple" /\ oret.idx = 1
    /\ SlotOf(tupA, 1, src) = oret.val
    /\ src[2] # oret.val
    /\ SlotOf(tupB, 1, src) = src[2]

\* n! in unbounded arithmetic
RECURSIVE MathFactorial(_)
MathFactorial(k) == IF k = 0 THEN 1 ELSE k * MathFactorial(k - 1)

\* C16: the four factorial implementations return the same unsigned int for
\* every n, and for n from 0 to 12 that value is n!, which fits in 32 bits
\* (1 for 0 and 1, 479001600 for 12)
C16_FactorialsAgree ==
    call.fn = "factorial" =>
        LET k == call.arg IN
          /\ call.out = factorial_v(k)
          /\ call.out = factorial_var(k)
          /\ call.out = factorial_fn(k)
          /\ call.out = factorial_constexpr(k)
          /\ k <= 12 => /\ MathFactorial(k) \div Half < Half
                        /\ call.out = U32(MathFactorial(k))
          /\ k \in {0, 1} => call.out = U32(1)
          /\ k = 12 => call.out = U32(479001600)

\* the constexpr function has returned 479001600 for 12
C16_Witness ==
    call = [fn |-> "factorial", impl |-> "factorial_constexpr", arg |-> 12,
            out |-> U32(479001600)]

\* C17: the concepts written as  requires { std::is_arithmetic_v<T>; }  hold
\* for exactly the arithmetic types, as their alternatives do, and
\* concept_check::add does not accept std::string
C17_RequiresExpressionIsArithmetic ==
    call.fn = "arithmetic" =>
        /\ call.concept_check = call.alternative
        /\ call.simple = call.simple_alt
        /\ call.concept_check <=> is_arithmetic_v(call.arg)
        /\ call.arg = "std::string" => call.add = "no_match"

\* N is a multiple of two
Even(N) == \E m \in 0..N : N = 2 * m

\* C18: for an array of N >= 1 elements the even overload of handle is
\* viable iff N is even and the odd one iff N is odd, so the call selects
\* exactly one of them (even for 4 elements, odd for 5)
C18_ExactlyOneHandle ==
    call.fn = "handle" =>
        LET N == call.arg IN
          /\ handle_even_viable(N) <=> Even(N)
          /\ handle_odd_viable(N) <=> ~Even(N)
          /\ call.out = IF Even(N) THEN "even" ELSE "odd"
          /\ N = 4 => call.out = "even"
          /\ N = 5 => call.out = "odd"

\* handle has selected the odd overload for five elements
C18_Witness == call = [fn |-> "handle", arg |-> 5, out |-> "odd"]

\* C19: min of k >= 1 arguments of one type returns one of its arguments,
\* which is less than or equal to every argument
\* (min(7.5) = 7.5, min(42.0, 7.5) = 7.5, min(1, 5, 3, -4, 9) = -4)
C19_MinIsLeastArgument ==
    call.fn = "min" =>
        /\ \E j \in 1..Len(call.arg) : call.out = call.arg[j]
        /\ \A j \in 1..Len(call.arg) : call.out <= call.arg[j]
        /\ (call.type = "double" /\ call.arg = <<75>>) => call.out = 75
        /\ (call.type = "double" /\ call.arg = <<420, 75>>) => call.out = 75
        /\ call.arg = <<1, 5, 3, 0 - 4, 9>> => call.out = 0 - 4

\* min(1, 5, 3, -4, 9) has returned -4
C19_Witness ==
    call = [fn |-> "min", type |-> "int", arg |-> <<1, 5, 3, 0 - 4, 9>>,
            out |-> 0 - 4]

\* C20: HomogenousRange<T...> holds iff the pack has more than one type, all
\* its types are the same and values of that type can be added; add is
\* callable on exactly those packs
C20_HomogenousRangeIff ==
    call.fn = "HomogenousRange" =>
        LET Ts == call.arg IN
          /\ call.holds <=>
                /\ Len(Ts) > 1
                /\ \A j, k \in 1..Len(Ts) : Ts[j] = Ts[k]
                /\ \A j \in 1..Len(Ts) : Ts[j] \in {"int", "double", "float"}
          /\ (call.add # "no_match") <=> call.holds
          /\ Ts = <<"int", "int">> => call.holds
          /\ Ts = <<"int", "int", "int", "int", "int", "int">> => call.holds
          /\ Ts = <<"int">> => ~call.holds
          /\ Ts = <<"int", "double">> => ~call.holds
          /\ Ts = <<"float", "double">> => ~call.holds

\* HomogenousRange holds for six ints and add returns an int
C20_Witness ==
    call = [fn |-> "HomogenousRange",
            arg |-> <<"int", "int", "int", "int", "int", "int">>,
            holds |-> TRUE, add |-> "int"]

====
